---- MODULE Spec2Model ----
(***************************************************************************)
(* Model of the derivation pipeline of src/derive/pipeline.rs: the         *)
(* Pipeline struct (mpsc sender, the Attributes stage at the head of the   *)
(* stage chain, the pending PayloadAttributes slot) and its operations     *)
(* next, peek, push_batcher_transactions and purge.  The four decoding     *)
(* stages live outside pipeline.rs; they are modelled from their contract  *)
(* (pull one element or none, purge own buffered state and the upstream).  *)
(***************************************************************************)
EXTENDS Integers, Sequences, FiniteSets, TLC

\* ---------------------------------------------------------------- bounds
MaxSubmits == 2          \* push_batcher_transactions calls in one run
MaxOrigin == 1           \* l1_origin ranges over 0..MaxOrigin

\* seq argument of Pipeline::new in tests::test_attributes_match
StartSeq == 0

Origins == 0..MaxOrigin
\* a raw transaction is a frame of a channel; "last" closes the channel
Blobs == {"frame", "last"}
TxLists == {<<>>} \cup {<<b>> : b \in Blobs}

\* Option<T>: None is the empty sequence, Some(v) the one-element sequence
None == <<>>
Some(v) == <<v>>

Min(a, b) == IF a < b THEN a ELSE b
Range(f) == {f[i] : i \in DOMAIN f}

VARIABLES
    chan,                \* mpsc queue: messages sent and not yet received
    rx_alive,            \* the Receiver end exists
    state,               \* shared State: origins whose L1 info is known
    txs,                 \* BatcherTransactions: messages taken from rx
    pending_frames,      \* Channels: frames of the channel being reassembled
    batches,             \* Batches: channels waiting for their L1 info
    sequence_number,     \* Attributes: next sequence number
    pending_attributes,  \* Pipeline.pending_attributes
    received,            \* history: messages the first stage took from rx
    produced,            \* history: ready values Attributes::next produced
    pulls,               \* calls of Attributes::next made by the last call
    purge_calls,         \* calls of a stage's purge made by the last call
    wiring,              \* the upstream each stage was built on
    submitted,           \* history: messages of all submit calls
    returned,            \* history: ready values returned by next()
    last_op,             \* the last operation called
    last_ret,            \* Option returned by the last next()/peek()
    last_send,           \* Result of the last push_batcher_transactions
    purged,              \* purge() has been called
    run_first,           \* Some(result of the first peek of the current run)
    run_len              \* peeks in the current run: 0, 1, or 2 for several

vars == <<chan, rx_alive, state, txs, pending_frames, batches, sequence_number,
          pending_attributes, received, produced, pulls, purge_calls, wiring,
          submitted,
          returned, last_op, last_ret, last_send, purged, run_first, run_len>>

\* The pipeline with everything it reaches, as one record the operations map.
Sys ==
    [chan |-> chan, rx_alive |-> rx_alive, state |-> state, txs |-> txs,
     pending_frames |-> pending_frames, batches |-> batches,
     sequence_number |-> sequence_number,
     pending_attributes |-> pending_attributes,
     received |-> received, produced |-> produced,
     pulls |-> pulls, purge_calls |-> purge_calls, wiring |-> wiring]

Install(s) ==
    /\ chan' = s.chan
    /\ rx_alive' = s.rx_alive
    /\ state' = s.state
    /\ txs' = s.txs
    /\ pending_frames' = s.pending_frames
    /\ batches' = s.batches
    /\ sequence_number' = s.sequence_number
    /\ pending_attributes' = s.pending_attributes
    /\ received' = s.received
    /\ produced' = s.produced
    /\ pulls' = s.pulls
    /\ purge_calls' = s.purge_calls
    /\ wiring' = s.wiring

\* ------------------------------------------------------ the stage chain
\* The value of a one-element set: Only({e(x) : x \in {v}}) binds x to the
\* value of v once, where a LET would evaluate v at each use.
Only(S) == CHOOSE x \in S : TRUE

\* BatcherTransactions: takes every message waiting in the receiver, hands
\* out the oldest one.
BatcherTransactions_next(s) ==
    LET got == IF s.rx_alive THEN s.chan ELSE <<>>
        all == s.txs \o got
        s1 == [s EXCEPT !.chan = <<>>, !.received = @ \o got]
    IN IF all = <<>>
       THEN [s |-> [s1 EXCEPT !.txs = <<>>], ret |-> None]
       ELSE [s |-> [s1 EXCEPT !.txs = Tail(all)], ret |-> Some(Head(all))]

\* Channels: adds the message's frames to the channel being reassembled; the
\* channel is complete when its last frame arrived.  r is what the upstream
\* pull gave.
Channels_push(r) ==
    IF r.ret = None THEN r
    ELSE LET m == r.ret[1]
             frames == r.s.pending_frames \o m.txs
         IN IF "last" \in Range(m.txs)
            THEN [s |-> [r.s EXCEPT !.pending_frames = <<>>],
                  ret |-> Some([l1_origin |-> m.l1_origin,
                                frames |-> Len(frames)])]
            ELSE [s |-> [r.s EXCEPT !.pending_frames = frames],
                  ret |-> None]

Channels_next(s) ==
    Only({Channels_push(r) : r \in {BatcherTransactions_next(s)}})

\* Batches: buffers the decoded channel; the oldest buffered batch is handed
\* out once the shared state knows the L1 block it came from.
Batches_push(r) ==
    LET buf == IF r.ret = None THEN r.s.batches
               ELSE Append(r.s.batches, r.ret[1])
    IN IF buf # <<>> /\ Head(buf).l1_origin \in r.s.state
       THEN [s |-> [r.s EXCEPT !.batches = Tail(buf)], ret |-> Some(Head(buf))]
       ELSE [s |-> [r.s EXCEPT !.batches = buf], ret |-> None]

Batches_next(s) == Only({Batches_push(r) : r \in {Channels_next(s)}})

\* Attributes: turns the next batch into payload attributes.
Attributes_derive(r) ==
    LET out == IF r.ret = None THEN None
               ELSE Some([l1_origin |-> r.ret[1].l1_origin,
                          sequence_number |-> r.s.sequence_number])
    IN [s |-> [r.s EXCEPT
                 !.sequence_number = IF out = None THEN @ ELSE @ + 1,
                 !.produced = @ \o out,
                 !.pulls = @ + 1],
        ret |-> out]

Attributes_next(s) == Only({Attributes_derive(r) : r \in {Batches_next(s)}})

\* by calls purge on the stage on
Called(s, by, on) ==
    [s EXCEPT !.purge_calls = Append(@, [by |-> by, on |-> on])]

\* each stage's purge purges the upstream it was built on, then discards its
\* own buffered state
BatcherTransactions_purge(s) == [s EXCEPT !.txs = <<>>]

Channels_purge(s) ==
    [BatcherTransactions_purge(Called(s, "Channels", s.wiring["Channels"]))
       EXCEPT !.pending_frames = <<>>]

Batches_purge(s) ==
    [Channels_purge(Called(s, "Batches", s.wiring["Batches"]))
       EXCEPT !.batches = <<>>]

Attributes_purge(s) ==
    [Batches_purge(Called(s, "Attributes", s.wiring["Attributes"]))
       EXCEPT !.sequence_number = StartSeq]

\* the stage chain Pipeline::new builds: each stage on the one before it,
\* the first on the receiver of the channel
Wired ==
    [BatcherTransactions |-> "rx", Channels |-> "BatcherTransactions",
     Batches |-> "Channels", Attributes |-> "Batches"]

\* ------------------------------------------------------------ Pipeline
\* new with a value already in the slot
new_buffered(st, seq) ==
    [chan |-> <<>>, rx_alive |-> TRUE, state |-> st, txs |-> <<>>,
     pending_frames |-> <<>>, batches |-> <<>>, sequence_number |-> seq,
     pending_attributes |-> Some([l1_origin |-> 0, sequence_number |-> seq]),
     received |-> <<>>, produced |-> <<>>, pulls |-> 0,
     purge_calls |-> <<>>, wiring |-> Wired]

\* Pipeline::new
new(st, seq) ==
    [chan |-> <<>>, rx_alive |-> TRUE, state |-> st, txs |-> <<>>,
     pending_frames |-> <<>>, batches |-> <<>>, sequence_number |-> seq,
     pending_attributes |-> None,
     received |-> <<>>, produced |-> <<>>, pulls |-> 0,
     purge_calls |-> <<>>, wiring |-> Wired]

\* Option::take on the pending slot
take(s) ==
    [s |-> [s EXCEPT !.pending_attributes = None],
     ret |-> s.pending_attributes]

\* next that copies the pending value out instead of taking it
next_clone(s) ==
    IF s.pending_attributes # None
    THEN [s |-> s, ret |-> s.pending_attributes]
    ELSE Attributes_next(s)

\* next that pulls a second time when the first pull was not ready
next_retry(s) ==
    IF s.pending_attributes # None
    THEN take(s)
    ELSE Only({IF first.ret = None THEN Attributes_next(first.s) ELSE first
               : first \in {Attributes_next(s)}})

\* next that never pulls from the Attributes stage
next_no_pull(s) ==
    IF s.pending_attributes # None
    THEN take(s)
    ELSE [s |-> s, ret |-> None]

\* <Pipeline as Iterator>::next
next(s) ==
    IF s.pending_attributes # None
    THEN take(s)
    ELSE Attributes_next(s)

\* Option::as_ref on the pending slot
as_ref(s) == [s |-> s, ret |-> s.pending_attributes]

\* peek that returns the pulled value without storing it
peek_no_store(s) ==
    IF s.pending_attributes = None
    THEN next(s)
    ELSE as_ref(s)

\* peek that pulls and stores whether or not a value is pending
peek_overwrite(s) ==
    as_ref(Only({[next_attributes.s EXCEPT
                    !.pending_attributes = next_attributes.ret]
                 : next_attributes \in {Attributes_next(s)}}))

\* peek that pulls again when the first pull was not ready
peek_retry(s) ==
    IF s.pending_attributes = None
    THEN as_ref(Only({[next_attributes.s EXCEPT
                         !.pending_attributes = next_attributes.ret]
                      : next_attributes \in {next_retry(s)}}))
    ELSE as_ref(s)

\* Pipeline::peek
peek(s) ==
    IF s.pending_attributes = None
    THEN as_ref(Only({[next_attributes.s EXCEPT
                         !.pending_attributes = next_attributes.ret]
                      : next_attributes \in {next(s)}}))
    ELSE as_ref(s)

\* Bytes::from applied to a Bytes
Bytes_from(b) == b

\* send that puts the message at the front of the queue
send_front(s, msg) ==
    IF s.rx_alive
    THEN [s |-> [s EXCEPT !.chan = <<msg>> \o @], ret |-> "Ok"]
    ELSE [s |-> s, ret |-> "Err"]

\* mpsc::Sender::send
send(s, msg) ==
    IF s.rx_alive
    THEN [s |-> [s EXCEPT !.chan = Append(@, msg)], ret |-> "Ok"]
    ELSE [s |-> s, ret |-> "Err"]

\* push that rejects an origin lower than one already submitted
push_reject_stale(s, in_txs, l1_origin) ==
    IF \E m \in Range(s.received \o s.chan) : m.l1_origin > l1_origin
    THEN [s |-> s, ret |-> "Err"]
    ELSE send(s, [txs |-> in_txs, l1_origin |-> l1_origin])

\* push that drives the pipeline once the message is sent
push_eager(s, in_txs, l1_origin) ==
    Only({[s |-> peek(r.s).s, ret |-> r.ret]
          : r \in {send(s, [txs |-> in_txs, l1_origin |-> l1_origin])}})

\* Pipeline::push_batcher_transactions
push_batcher_transactions(s, in_txs, l1_origin) ==
    LET mapped == [i \in 1..Len(in_txs) |-> Bytes_from(in_txs[i])]
    IN send(s, [txs |-> mapped, l1_origin |-> l1_origin])

\* purge that replaces the channel by a new, empty one
purge_recreate(s) ==
    [s |-> [Attributes_purge(Called(s, "Pipeline", "Attributes"))
              EXCEPT !.chan = <<>>],
     ret |-> "Ok"]

\* purge that purges every stage itself
purge_fanout(s) ==
    [s |-> BatcherTransactions_purge(Called(
             Channels_purge(Called(
               Batches_purge(Called(
                 Attributes_purge(Called(s, "Pipeline", "Attributes")),
                 "Pipeline", "Batches")),
               "Pipeline", "Channels")),
             "Pipeline", "BatcherTransactions")),
     ret |-> "Ok"]

\* purge that drops the stage chain's receiver
purge_teardown(s) ==
    [s |-> [Attributes_purge(Called(s, "Pipeline", "Attributes"))
              EXCEPT !.rx_alive = FALSE],
     ret |-> "Ok"]

\* Pipeline::purge
purge(s) ==
    [s |-> Attributes_purge(Called(s, "Pipeline", "Attributes")), ret |-> "Ok"]

\* State::update_l1_info, called by the watcher side
update_l1_info(s, o) == [s EXCEPT !.state = @ \cup {o}]

\* ------------------------------------------------------------- actions
\* The record an operation is called on: the call has made no pull yet.
Call == [Sys EXCEPT !.pulls = 0, !.purge_calls = <<>>]

Init ==
    \E s \in {new({}, StartSeq)} :
       /\ chan = s.chan
       /\ rx_alive = s.rx_alive
       /\ state = s.state
       /\ txs = s.txs
       /\ pending_frames = s.pending_frames
       /\ batches = s.batches
       /\ sequence_number = s.sequence_number
       /\ pending_attributes = s.pending_attributes
       /\ received = s.received
       /\ produced = s.produced
       /\ pulls = s.pulls
       /\ purge_calls = s.purge_calls
       /\ wiring = s.wiring
       /\ submitted = <<>>
       /\ returned = <<>>
       /\ last_op = "new"
       /\ last_ret = None
       /\ last_send = "Ok"
       /\ purged = FALSE
       /\ run_first = None
       /\ run_len = 0

\* what the caller of the last operation observed
observed == <<last_op, last_ret, run_first, run_len>>

\* push_batcher_transactions returns r
SubmitCall(in_txs, o, r) ==
    /\ Len(submitted) < MaxSubmits
    /\ Install(r.s)
    /\ last_send' = r.ret
    /\ submitted' = Append(submitted, [txs |-> in_txs, l1_origin |-> o])
    /\ UNCHANGED <<returned, purged>>

\* next() returns r
AdvanceCall(r) ==
    /\ Install(r.s)
    /\ returned' = returned \o r.ret
    /\ UNCHANGED <<submitted, last_send, purged>>

\* peek() returns r
PeekCall(r) ==
    /\ Install(r.s)
    /\ UNCHANGED <<submitted, returned, last_send, purged>>

\* update_l1_info(o) leaves the system as s
UpdateCall(o, s) ==
    /\ o \notin state
    /\ Install(s)
    /\ UNCHANGED <<submitted, returned, last_send, purged>>

\* the producer thread calls push_batcher_transactions
Submit(in_txs, o) ==
    /\ \E r \in {push_batcher_transactions(Call, in_txs, o)} :
          SubmitCall(in_txs, o, r)
    /\ last_op' = "submit"
    /\ UNCHANGED <<last_ret, run_first, run_len>>

\* the consumer thread calls next()
Advance ==
    /\ \E r \in {next(Call)} :
          /\ AdvanceCall(r)
          /\ last_ret' = r.ret
    /\ last_op' = "advance"
    /\ run_first' = None
    /\ run_len' = 0

\* the consumer thread calls peek()
Peek ==
    /\ \E r \in {peek(Call)} :
          /\ PeekCall(r)
          /\ last_ret' = r.ret
          /\ run_first' = IF run_first = None THEN Some(r.ret) ELSE run_first
    /\ last_op' = "peek"
    /\ run_len' = Min(run_len + 1, 2)

\* the consumer thread calls purge()
Purge ==
    /\ \E r \in {purge(Call)} : Install(r.s)
    /\ last_op' = "purge"
    /\ purged' = TRUE
    /\ run_first' = None
    /\ run_len' = 0
    /\ UNCHANGED <<submitted, returned, last_ret, last_send>>

\* the watcher records the L1 info of block o in the shared state
UpdateL1Info(o) ==
    /\ UpdateCall(o, update_l1_info(Call, o))
    /\ last_op' = "update_l1_info"
    /\ UNCHANGED <<last_ret, run_first, run_len>>

Next ==
    \/ \E in_txs \in TxLists, o \in Origins : Submit(in_txs, o)
    \/ Advance
    \/ Peek
    \/ Purge
    \/ \E o \in Origins : UpdateL1Info(o)

Spec == Init /\ [][Next]_vars

\* The same operations in runs without a purge, the caller's observations
\* not recorded.
LiveSubmit(in_txs, o) ==
    /\ \E r \in {push_batcher_transactions(Call, in_txs, o)} :
          SubmitCall(in_txs, o, r)
    /\ UNCHANGED observed

LiveAdvance ==
    /\ \E r \in {next(Call)} : AdvanceCall(r)
    /\ UNCHANGED observed

LivePeek ==
    /\ \E r \in {peek(Call)} : PeekCall(r)
    /\ UNCHANGED observed

LiveUpdateL1Info(o) ==
    /\ UpdateCall(o, update_l1_info(Call, o))
    /\ UNCHANGED observed

NextLive ==
    \/ \E in_txs \in TxLists, o \in Origins : LiveSubmit(in_txs, o)
    \/ LiveAdvance
    \/ LivePeek
    \/ \E o \in Origins : LiveUpdateL1Info(o)

\* the consumer polls next() forever
SpecLive == Init /\ [][NextLive]_vars /\ WF_vars(LiveAdvance)

\* ------------------------------------------------------------ helpers
LastSubmitted == submitted[Len(submitted)]

\* the first ready value k further pulls of the stage chain yield, if any
RECURSIVE Poll(_, _)
Poll(s, k) ==
    IF k = 0 THEN None
    ELSE Only({IF r.ret # None THEN r.ret ELSE Poll(r.s, k - 1)
               : r \in {Attributes_next(s)}})

\* the value the caller is due next, given the data supplied so far
NextReady ==
    IF pending_attributes # None THEN pending_attributes
    ELSE Poll(Sys, MaxSubmits + 1)

\* -------------------------------------------------------------- claims

\* C1: once purge() returns, the pending slot is Empty, so a value buffered
\* by a peek() before the purge is not handed out after it.
C1_PurgeEmptiesSlot ==
    last_op = "purge" => pending_attributes = None

\* C2 as stated: every peek() of a run of consecutive peeks (no next() or
\* purge() between them) returns what the first peek of the run returned,
\* and the next() that follows returns it and leaves the slot Empty.
C2_PeekRunIdentical ==
    [][/\ (last_op' = "peek" /\ run_first # None)
            => last_ret' = run_first[1]
       /\ (last_op' = "advance" /\ run_first # None)
            => (last_ret' = run_first[1] /\ pending_attributes' = None)]_vars

\* C2 amended: once a peek() of the run has returned a ready value, every
\* later peek() of the run returns that value, and the next() that follows
\* returns it and leaves the slot Empty.
C2_ReadyPeekRunIdentical ==
    [][(run_first # None /\ last_ret # None) =>
         /\ last_op' = "peek" => last_ret' = last_ret
         /\ last_op' = "advance"
              => (last_ret' = last_ret /\ pending_attributes' = None)]_vars

C2_Witness ==
    /\ last_op = "peek"
    /\ run_len = 2
    /\ last_ret # None
    /\ run_first = Some(last_ret)
    /\ Len(submitted) = 2

\* C3: with no purge(), the ready values returned by next() are the ready
\* values the Attributes stage produced, in the same order, the one still in
\* the slot excepted: none skipped, reordered or returned twice.
C3_ReturnedIsProduced ==
    ~purged => produced = returned \o pending_attributes

C3_Witness ==
    /\ ~purged
    /\ Len(returned) = 2
    /\ returned[1] # returned[2]
    /\ produced = returned

\* C4: next() returns the pending value without pulling when the slot is
\* Buffered; otherwise it pulls from the Attributes stage exactly once and
\* returns what that pull produced.
C4_AdvancePullsOnce ==
    [][last_op' = "advance" =>
         IF pending_attributes # None
         THEN /\ last_ret' = pending_attributes
              /\ pulls' = 0
              /\ produced' = produced
         ELSE /\ pulls' = 1
              /\ produced' = produced \o last_ret']_vars

C4_Witness ==
    /\ last_op = "advance"
    /\ pulls = 0
    /\ last_ret # None
    /\ txs # <<>>

\* C5: the first stage receives the submitted messages in the order of the
\* submit calls, each once: what was submitted is what was received followed
\* by what is still queued.
C5_ChannelFifo ==
    submitted = received \o chan

C5_Witness ==
    /\ Len(received) = 2
    /\ received[1] # received[2]
    /\ received = submitted

\* C6: purge() leaves the channel as it was (same queue, receiver alive), and
\* a submit made after a purge succeeds and is queued whatever its origin.
C6_PurgeKeepsChannel ==
    [][/\ last_op' = "purge" => (chan' = chan /\ rx_alive' = rx_alive)
       /\ (last_op' = "submit" /\ purged)
            => (last_send' = "Ok" /\ chan' = Append(chan, submitted'[Len(submitted')]))]_vars

C6_Witness ==
    /\ purged
    /\ last_op = "submit"
    /\ last_send = "Ok"
    /\ Len(chan) = 2
    /\ chan[2].l1_origin < chan[1].l1_origin

\* C7: submit fails exactly when the receiver is gone; otherwise it succeeds
\* and queues exactly one message carrying the given blobs and origin.
C7_SubmitResult ==
    [][last_op' = "submit" =>
         /\ last_send' = "Err" <=> ~rx_alive
         /\ Len(submitted') = Len(submitted) + 1
         /\ rx_alive => chan' = Append(chan, submitted'[Len(submitted')])
         /\ ~rx_alive => chan' = chan]_vars

C7_Witness ==
    /\ last_op = "submit"
    /\ last_send = "Ok"
    /\ pending_attributes # None
    /\ purged
    /\ Len(submitted) = 2
    /\ LastSubmitted.txs = <<>>
    /\ LastSubmitted.l1_origin < submitted[1].l1_origin

\* C8: as long as nothing was ever submitted, every next() and peek()
\* returned not-ready and the slot is Empty, purges included.
C8_FreshNotReady ==
    submitted = <<>> =>
        /\ pending_attributes = None
        /\ last_ret = None
        /\ returned = <<>>
        /\ produced = <<>>

C8_Witness ==
    /\ submitted = <<>>
    /\ purged
    /\ last_op = "peek"
    /\ run_len = 2
    /\ state = Origins

\* C9: with no purge(), whenever the stage chain can produce a value from
\* the data supplied so far, fair polling of next() eventually returns one
\* more ready value, and the value returned is that one.
C9_EventuallyReturned ==
    /\ \A n \in 0..MaxSubmits :
          (~purged /\ NextReady # None /\ Len(returned) = n)
              ~> (purged \/ Len(returned) > n)
    /\ [][(~purged /\ returned' # returned)
             => returned' = returned \o NextReady]_vars

\* next() returned a ready value whose channel needed two messages: the pull
\* that took the "frame" message had answered not-ready
C9_Witness ==
    /\ ~purged
    /\ Len(returned) = 1
    /\ produced = returned
    /\ pending_attributes = None
    /\ Len(received) = 2
    /\ received[1].txs = <<"frame">>
    /\ received[2].txs = <<"last">>

\* C10: the slot holds at most one value, and a buffered value is never
\* replaced by another one: it only leaves the slot, by next() or purge().
C10_SlotNeverOverwritten ==
    [][/\ Len(pending_attributes') <= 1
       /\ (pending_attributes # None /\ pending_attributes' # pending_attributes)
            => (pending_attributes' = None /\ last_op' \in {"advance", "purge"})
       /\ (pending_attributes = None /\ pending_attributes' # None)
            => last_op' = "peek"]_vars

C10_Witness ==
    /\ last_op = "peek"
    /\ run_len = 2
    /\ pending_attributes # None
    /\ txs # <<>>

\* the stage chain with the channel it reads and the histories of its pulls
chain == <<chan, txs, pending_frames, batches, sequence_number, received,
           produced>>

\* C11 as stated: in a run of consecutive peeks only the first peek may pull
\* from the Attributes stage, whatever that pull produced.
C11_OnlyFirstPeekPulls ==
    [][(last_op' = "peek" /\ run_first # None) => pulls' = 0]_vars

\* C11 amended: a peek() pulls exactly once when it finds the slot Empty and
\* not at all when it finds it Buffered; so once a peek() of a run (no next()
\* or purge() in between) has returned a ready value, the later peeks of the
\* run do not pull.
C11_PeekPullsIffEmpty ==
    [][last_op' = "peek" =>
         /\ pulls' = IF pending_attributes = None THEN 1 ELSE 0
         /\ (run_first # None /\ last_ret # None)
              => (pulls' = 0 /\ chain' = chain)]_vars

C11_Witness ==
    /\ last_op = "peek"
    /\ run_len = 2
    /\ pulls = 0
    /\ last_ret # None
    /\ chan # <<>>

\* C12 as stated: the slot starts Empty; next() takes Buffered to Empty and
\* leaves Empty Empty; peek() takes Empty to Buffered by pulling and leaves
\* Buffered, and the stage chain, untouched.
C12_TwoStateMachine ==
    /\ [](last_op = "new" => pending_attributes = None)
    /\ [][/\ last_op' = "advance" => pending_attributes' = None
          /\ last_op' = "peek" =>
               IF pending_attributes = None
               THEN pulls' = 1 /\ pending_attributes' # None
               ELSE /\ pending_attributes' = pending_attributes
                    /\ chain' = chain]_vars

\* C12 amended: as stated, except that peek() from Empty pulls once and
\* becomes Buffered only when that pull yields a ready value; on not-ready
\* the slot stays Empty.
C12_TwoStateMachineReady ==
    /\ [](last_op = "new" => pending_attributes = None)
    /\ [][/\ last_op' = "advance" => pending_attributes' = None
          /\ last_op' = "peek" =>
               IF pending_attributes = None
               THEN /\ pulls' = 1
                    /\ produced' = produced \o pending_attributes'
               ELSE /\ pending_attributes' = pending_attributes
                    /\ chain' = chain]_vars

C12_Witness ==
    /\ last_op = "peek"
    /\ run_len = 1
    /\ pulls = 1
    /\ pending_attributes # None
    /\ produced = returned \o pending_attributes
    /\ Len(returned) = 1

\* the stages a purge call reached, in the order it reached them
PurgedStages == [i \in 1..Len(purge_calls) |-> purge_calls[i].on]

\* C13: one purge() calls purge on the Attributes stage once and on no other
\* stage itself; through each stage purging its upstream the call reaches
\* every stage once, every stage's buffered state is discarded, and the
\* wiring is the one new() built.
C13_PurgeCascade ==
    /\ wiring = Wired
    /\ last_op = "purge" =>
         /\ PurgedStages =
              <<"Attributes", "Batches", "Channels", "BatcherTransactions">>
         /\ \A i \in 1..Len(purge_calls) :
               purge_calls[i].by = "Pipeline" <=> i = 1
         /\ \A i \in 2..Len(purge_calls) :
               wiring[purge_calls[i].by] = purge_calls[i].on
         /\ txs = <<>>
         /\ pending_frames = <<>>
         /\ batches = <<>>
         /\ sequence_number = StartSeq

\* the purge discarded a received channel that had not been turned into a
\* value
C13_Witness ==
    /\ last_op = "purge"
    /\ Len(purge_calls) = 4
    /\ Len(received) = 2
    /\ received[1].txs = <<"last">>
    /\ produced = <<>>
    /\ chan = <<>>

\* nothing is queued or buffered anywhere from the channel to the slot
NoData ==
    /\ pending_attributes = None
    /\ chan = <<>>
    /\ txs = <<>>
    /\ batches = <<>>

\* C14: a next() or peek() call made at most one pull of the Attributes
\* stage; with nothing queued or buffered the call can still be made, and it
\* returns not-ready after one pull instead of waiting for a submit (each
\* call has one outcome, so the outcome that is enabled is the outcome).
C14_ConsumerNeverWaits ==
    /\ last_op \in {"advance", "peek"} => pulls <= 1
    /\ NoData =>
         /\ ENABLED (Advance /\ last_ret' = None /\ pulls' = 1)
         /\ ENABLED (Peek /\ last_ret' = None /\ pulls' = 1)

C14_Witness ==
    /\ last_op = "advance"
    /\ pulls = 1
    /\ last_ret = None
    /\ NoData
    /\ Len(received) = 1
    /\ Len(submitted) = 1

\* C15: right after a peek() the call returned exactly the content of the
\* slot: a ready value when the slot is Buffered, not-ready when it is Empty.
C15_PeekReturnsSlot ==
    last_op = "peek" => last_ret = pending_attributes

C15_Witness ==
    /\ last_op = "peek"
    /\ pulls = 1
    /\ last_ret # None
    /\ last_ret = pending_attributes
    /\ purged

\* C16: a submit changes the queue only: the slot, every stage's state and
\* the shared state stay as they were and no stage is pulled.
C16_SubmitFrame ==
    [][last_op' = "submit" =>
         /\ pending_attributes' = pending_attributes
         /\ <<txs, pending_frames, batches, sequence_number>>'
              = <<txs, pending_frames, batches, sequence_number>>
         /\ <<received, produced, returned, state, rx_alive, wiring>>'
              = <<received, produced, returned, state, rx_alive, wiring>>
         /\ pulls' = 0
         /\ purge_calls' = <<>>]_vars

C16_Witness ==
    /\ last_op = "submit"
    /\ run_len = 1
    /\ last_ret # None
    /\ pending_attributes = last_ret
    /\ Len(chan) = 1
    /\ pulls = 0

\* C17: the receiver is alive in every reachable state and no submit has
\* returned a delivery error.
C17_ReceiverAlive ==
    /\ rx_alive
    /\ last_send = "Ok"

C17_Witness ==
    /\ rx_alive
    /\ last_op = "submit"
    /\ last_send = "Ok"
    /\ purged
    /\ Len(returned) = 1
    /\ Len(chan) = 1

====
